---- MODULE Spec2Model ----
(***************************************************************************)
(* Model of the research-paper question-answering pipeline:                *)
(*   build_database.py   chunking and the batched index build              *)
(*   title_extraction.py the multi-strategy title resolution and its sweep *)
(*   app.py              answer_question / ask_question                    *)
(*                                                                         *)
(* A piece of text is represented by the document it was cut from and its  *)
(* half-open character range [from, to); Python's slicing is computed on   *)
(* that range with Python's clamping.  File names and titles that the code *)
(* rewrites character by character are sequences of one-character strings. *)
(***************************************************************************)
EXTENDS Integers, Sequences, FiniteSets, TLC

VARIABLES
    \* ---- chunking(full_text, chunk_size, overlap) ----
    full_text, chunk_size, overlap, chunks, cpc,
    \* ---- app.py: ask_question / answer_question ----
    index_hits,      \* what collection.query will return: <<[doc, dist], ...>>
    sorted_docs,     \* sorted(zip(documents, distances), key = distance)
    selected,        \* selected_chunks_with_distances
    total_tokens,
    gen_calls,       \* number of calls made to the generation service
    gen_outcome,     \* how the generation call ended ("none" before it)
    final_answer,    \* "none", "text", or "null" (message.content is None)
    exc,             \* the exception in flight ("none" when there is none)
    response,        \* what the caller of POST /ask receives
    qpc,
    \* ---- title_extraction.py: the sweep and get_paper_title_multi_strategy ----
    pdf_files,       \* the file names the sweep walks, in order
    fidx,            \* position of the current file in pdf_files (0 before the first)
    tpc,             \* "loop", "arxiv", "metadata", "text", "semantic", "filename",
                     \* "record", "written", "crashed"
    attempted,       \* strategies attempted for the current file, in order
    arxiv_id,        \* the identifier sent to arXiv for the current file
    arxiv_reply,     \* what the services and the PDF gave for the current file
    meta_in,
    page_in,
    ss_reply,
    heuristic,       \* the result of the text scan, handed to the verification
    title, source,   \* what get_paper_title_multi_strategy returned
    called,          \* services called while resolving the current file
    net_log,         \* network calls and rate-limit sleeps of the sweep, in order
    doc_log,         \* per finished file: the services called, and whether it slept
    extracted_titles,
    sources_count,
    \* ---- build_database.py: the index build ----
    papers,          \* the PDF files of the folder: <<[name, text_len], ...>>
    titles_cache,    \* paper_titles.json: file name -> title
    pidx,            \* number of files processed
    all_chunks, metadatas, embeddings, chunk_ids,
    batch_start,     \* i of the batch loop
    collection,      \* the entries of the persistent collection 'ai_papers'
    ipc              \* "files", "add", "done", "crashed"

chunkVars == <<full_text, chunk_size, overlap, chunks, cpc>>
queryVars == <<index_hits, sorted_docs, selected, total_tokens, gen_calls,
               gen_outcome, final_answer, exc, response, qpc>>

titleVars == <<pdf_files, fidx, tpc, attempted, arxiv_id, arxiv_reply, meta_in,
               page_in, ss_reply, heuristic, title, source, called, net_log,
               doc_log, extracted_titles, sources_count>>

ingestVars == <<papers, titles_cache, pidx, all_chunks, metadatas, embeddings,
                chunk_ids, batch_start, collection, ipc>>

vars == <<chunkVars, queryVars, titleVars, ingestVars>>

(***************************************************************************)
(* Bounds of the model.                                                    *)
(***************************************************************************)
MaxTextLen == 7
MaxChunkSize == 4
MaxCandidates == 3
MaxStemLen == 3
MaxFiles == 2
MaxPapers == 2

(***************************************************************************)
(* Python helpers.                                                         *)
(***************************************************************************)
Min(a, b) == IF a <= b THEN a ELSE b
Max(a, b) == IF a >= b THEN a ELSE b

\* A text: characters [from, to) of document doc.
Text(d, n) == [doc |-> d, from |-> 0, to |-> n]
TextLen(t) == t.to - t.from

\* range(0, stop, step) for step > 0, as the sequence of its values.
PyRange(stop, step) ==
    [k \in 1..((Max(stop, 0) + step - 1) \div step) |-> (k - 1) * step]

\* t[i:j] for i, j >= 0: both ends are clamped to the length of t.
PySlice(t, i, j) ==
    LET lo == Min(i, TextLen(t))
        hi == Max(lo, Min(j, TextLen(t)))
    IN  [doc |-> t.doc, from |-> t.from + lo, to |-> t.from + hi]

(***************************************************************************)
(* Idle values of the parts a specification does not exercise.             *)
(***************************************************************************)
NoResponse == [status |-> 0, detail |-> "none", answer |-> "none", chunks_used |-> 0]
NoException == [kind |-> "none", status |-> 0, detail |-> "none"]

QueryIdle ==
    /\ index_hits = <<>>
    /\ sorted_docs = <<>>
    /\ selected = <<>>
    /\ total_tokens = 0
    /\ gen_calls = 0
    /\ gen_outcome = "none"
    /\ final_answer = "none"
    /\ exc = NoException
    /\ response = NoResponse
    /\ qpc = "idle"

Provenances == {"arxiv", "pdf_metadata", "pdf_text", "semantic_scholar", "filename"}
Unused == [kind |-> "unused"]
othersOfTitle == <<chunkVars, queryVars, ingestVars>>

TitleIdle ==
    /\ pdf_files = <<>>
    /\ fidx = 0
    /\ tpc = "idle"
    /\ attempted = <<>>
    /\ arxiv_id = <<>>
    /\ arxiv_reply = Unused
    /\ meta_in = Unused
    /\ page_in = Unused
    /\ ss_reply = Unused
    /\ heuristic = [title |-> <<>>, source |-> "None", raised |-> FALSE]
    /\ title = <<>>
    /\ source = "None"
    /\ called = {}
    /\ net_log = <<>>
    /\ doc_log = <<>>
    /\ extracted_titles = <<>>
    /\ sources_count = [p \in Provenances |-> 0]

IngestIdle ==
    /\ papers = <<>>
    /\ titles_cache = <<>>
    /\ pidx = 0
    /\ all_chunks = <<>>
    /\ metadatas = <<>>
    /\ embeddings = <<>>
    /\ chunk_ids = <<>>
    /\ batch_start = 0
    /\ collection = {}
    /\ ipc = "idle"

(***************************************************************************)
(* build_database.py: chunking                                             *)
(***************************************************************************)
\* def chunking(full_text, chunk_size=3000, overlap=200)
DefaultChunkSize == 3000
DefaultOverlap == 200

\* Mutant: the stride forgets the overlap.
chunkingStartsNoOverlap(t, size, ovl) == PyRange(TextLen(t), size)

\* The window starts: range(0, len(full_text), chunk_size - overlap).
chunkingStarts(t, size, ovl) == PyRange(TextLen(t), size - ovl)

chunking(t, size, ovl) ==
    LET starts == chunkingStarts(t, size, ovl)
    IN  [k \in 1..Len(starts) |-> PySlice(t, starts[k], starts[k] + size)]

\* Text lengths for the call with the default arguments, chunking(document_text).
DefaultCallLens == {1, 2800, 2801, 2900, 3000, 3001, 5600, 5800, 8401}

ChunkIdle ==
    /\ full_text = Text("doc", 0)
    /\ chunk_size = 1
    /\ overlap = 0
    /\ chunks = <<>>
    /\ cpc = "idle"

InitChunk ==
    /\ QueryIdle
    /\ TitleIdle
    /\ IngestIdle
    /\ \/ /\ \E n \in 0..MaxTextLen : full_text = Text("doc", n)
          /\ chunk_size \in 1..MaxChunkSize
          /\ overlap \in 0..(chunk_size - 1)
       \/ /\ \E n \in DefaultCallLens : full_text = Text("doc", n)
          /\ chunk_size = DefaultChunkSize
          /\ overlap = DefaultOverlap
    /\ chunks = <<>>
    /\ cpc = "call"

Chunk ==
    /\ cpc = "call"
    /\ chunks' = chunking(full_text, chunk_size, overlap)
    /\ cpc' = "done"
    /\ UNCHANGED <<full_text, chunk_size, overlap>>
    /\ UNCHANGED <<queryVars, titleVars, ingestVars>>

NextChunk == Chunk

SpecChunk == InitChunk /\ [][NextChunk]_vars

\* C2: for 0 <= overlap < chunk_size the k-th chunk starts at
\* (k-1) * (chunk_size - overlap), the last chunk ends at the end of the text,
\* and every character position of the text lies in some chunk.
ChunkStartsStrideAndCover ==
    cpc = "done" =>
        LET n == Len(chunks)
            L == TextLen(full_text)
        IN  /\ \A k \in 1..n : chunks[k].from = (k - 1) * (chunk_size - overlap)
            /\ n > 0 => chunks[n].to = L
            /\ \A p \in 0..(L - 1) :
                   \E k \in 1..n : chunks[k].from <= p /\ p < chunks[k].to

\* C2's case: several overlapping windows, the last one cut short by the end.
ChunkStartsStrideAndCoverWitness ==
    /\ cpc = "done"
    /\ Len(chunks) >= 3
    /\ overlap > 0
    /\ TextLen(chunks[Len(chunks)]) < chunk_size

\* C3 as stated: every chunk but the final one has exactly chunk_size
\* characters and shares exactly overlap characters with its predecessor.
OnlyFinalChunkShort ==
    cpc = "done" =>
        \A k \in 1..(Len(chunks) - 1) :
            /\ TextLen(chunks[k]) = chunk_size
            /\ k > 1 => chunks[k - 1].to - chunks[k].from = overlap

(***************************************************************************)
(* app.py: answer_question and ask_question                                *)
(***************************************************************************)
MAX_CONTEXT_TOKENS == 4000

\* Lengths (in characters) of the stored chunks a query may return, and the
\* distances the index may report for them; the query asks for n_results.
n_results == 30
DocLens == {3, 800, 4000, 12000, 14000}
Distances == 1..2
Candidates == [doc : {Text("chunk", n) : n \in DocLens}, dist : Distances]

RECURSIVE SeqsUpTo(_, _)
SeqsUpTo(S, n) ==
    IF n = 0 THEN {<<>>}
    ELSE LET shorter == SeqsUpTo(S, n - 1)
         IN  shorter \cup {Append(q, x) : q \in {r \in shorter : Len(r) = n - 1}, x \in S}

\* sorted(..., key=lambda x: x[1]): a stable sort on the distance.
RECURSIVE InsertByDistance(_, _)
InsertByDistance(sorted, x) ==
    IF sorted = <<>> THEN <<x>>
    ELSE LET last == sorted[Len(sorted)]
         IN  IF last.dist <= x.dist THEN Append(sorted, x)
             ELSE Append(InsertByDistance(SubSeq(sorted, 1, Len(sorted) - 1), x), last)

RECURSIVE sortedByDistance(_)
sortedByDistance(pairs) ==
    IF pairs = <<>> THEN <<>>
    ELSE InsertByDistance(sortedByDistance(SubSeq(pairs, 1, Len(pairs) - 1)),
                          pairs[Len(pairs)])

\* doc_tokens = len(doc) // 4
docTokens(doc) == TextLen(doc) \div 4

\* Mutant: an over-budget chunk is skipped and the walk goes on.
RECURSIVE budgetLoopSkip(_, _, _, _)
budgetLoopSkip(docs, i, sel, total) ==
    IF i > Len(docs) THEN [selected |-> sel, total_tokens |-> total]
    ELSE IF total + docTokens(docs[i].doc) < MAX_CONTEXT_TOKENS
         THEN budgetLoopSkip(docs, i + 1, Append(sel, docs[i]),
                             total + docTokens(docs[i].doc))
         ELSE budgetLoopSkip(docs, i + 1, sel, total)

\* The loop of lines 84-90, from position i on.
RECURSIVE budgetLoop(_, _, _, _)
budgetLoop(docs, i, sel, total) ==
    IF i > Len(docs) THEN [selected |-> sel, total_tokens |-> total]
    ELSE IF total + docTokens(docs[i].doc) < MAX_CONTEXT_TOKENS
         THEN budgetLoop(docs, i + 1, Append(sel, docs[i]),
                         total + docTokens(docs[i].doc))
         ELSE [selected |-> sel, total_tokens |-> total]

\* raise HTTPException(status_code=500, detail="LLM Error: ...")
LLMError == [kind |-> "HTTPException", status |-> 500, detail |-> "LLM Error"]
\* any other exception (embedding, index, response validation)
OtherError == [kind |-> "Exception", status |-> 0, detail |-> "none"]

\* Mutant: every exception is wrapped in the generic error.
askQuestionHandlerWrapAll(e) ==
    [status |-> 500, detail |-> "Error", answer |-> "none", chunks_used |-> 0]

\* The except clauses of ask_question.
askQuestionHandler(e) ==
    IF e.kind = "HTTPException"
    THEN [status |-> e.status, detail |-> e.detail, answer |-> "none", chunks_used |-> 0]
    ELSE [status |-> 500, detail |-> "Error", answer |-> "none", chunks_used |-> 0]

\* How a call to chat.completions.create and the read of
\* response.choices[0].message.content can end.
GenOutcomes == {"text", "null", "raise", "malformed"}
GenFailures == {"raise", "malformed"}

InitQuery ==
    /\ ChunkIdle
    /\ TitleIdle
    /\ IngestIdle
    /\ index_hits \in SeqsUpTo(Candidates, Min(MaxCandidates, n_results))
    /\ sorted_docs = <<>>
    /\ selected = <<>>
    /\ total_tokens = 0
    /\ gen_calls = 0
    /\ gen_outcome = "none"
    /\ final_answer = "none"
    /\ exc = NoException
    /\ response = NoResponse
    /\ qpc = "retrieve"

\* Lines 67-77: the embedding and index calls succeed.
Retrieve ==
    /\ qpc = "retrieve"
    /\ qpc' = "budget"
    /\ UNCHANGED <<index_hits, sorted_docs, selected, total_tokens, gen_calls,
                   gen_outcome, final_answer, exc, response>>
    /\ UNCHANGED <<chunkVars, titleVars, ingestVars>>

\* Lines 67-77: the embedding or the index call raises.
RetrieveFails ==
    /\ qpc = "retrieve"
    /\ exc' = OtherError
    /\ qpc' = "handler"
    /\ UNCHANGED <<index_hits, sorted_docs, selected, total_tokens, gen_calls,
                   gen_outcome, final_answer, response>>
    /\ UNCHANGED <<chunkVars, titleVars, ingestVars>>

\* Lines 79-90.
Budget ==
    /\ qpc = "budget"
    /\ sorted_docs' = sortedByDistance(index_hits)
    /\ LET r == budgetLoop(sorted_docs', 1, <<>>, 0)
       IN  /\ selected' = r.selected
           /\ total_tokens' = r.total_tokens
    /\ qpc' = "generate"
    /\ UNCHANGED <<index_hits, gen_calls, gen_outcome, final_answer, exc, response>>
    /\ UNCHANGED <<chunkVars, titleVars, ingestVars>>

\* Lines 122-133.
Generate ==
    /\ qpc = "generate"
    /\ gen_calls' = gen_calls + 1
    /\ \E o \in GenOutcomes :
          /\ gen_outcome' = o
          /\ IF o \in GenFailures
             THEN /\ exc' = LLMError
                  /\ qpc' = "handler"
                  /\ UNCHANGED final_answer
             ELSE /\ final_answer' = o
                  /\ qpc' = "respond"
                  /\ UNCHANGED exc
    /\ UNCHANGED <<index_hits, sorted_docs, selected, total_tokens, response>>
    /\ UNCHANGED <<chunkVars, titleVars, ingestVars>>

\* Lines 163-168: QueryResponse(answer: str) rejects an answer that is None.
Respond ==
    /\ qpc = "respond"
    /\ IF final_answer = "text"
       THEN /\ response' = [status |-> 200, detail |-> "none", answer |-> "text",
                            chunks_used |-> Len(selected)]
            /\ qpc' = "done"
            /\ UNCHANGED exc
       ELSE /\ exc' = OtherError
            /\ qpc' = "handler"
            /\ UNCHANGED response
    /\ UNCHANGED <<index_hits, sorted_docs, selected, total_tokens, gen_calls,
                   gen_outcome, final_answer>>
    /\ UNCHANGED <<chunkVars, titleVars, ingestVars>>

\* Lines 169-173.
Handle ==
    /\ qpc = "handler"
    /\ response' = askQuestionHandler(exc)
    /\ qpc' = "done"
    /\ UNCHANGED <<index_hits, sorted_docs, selected, total_tokens, gen_calls,
                   gen_outcome, final_answer, exc>>
    /\ UNCHANGED <<chunkVars, titleVars, ingestVars>>

NextQuery == Retrieve \/ RetrieveFails \/ Budget \/ Generate \/ Respond \/ Handle

SpecQuery == InitQuery /\ [][NextQuery]_vars

RECURSIVE PrefixCost(_, _)
PrefixCost(docs, j) ==
    IF j = 0 THEN 0 ELSE PrefixCost(docs, j - 1) + (TextLen(docs[j].doc) \div 4)

SetMax(S) == CHOOSE x \in S : \A y \in S : y <= x

\* C1: the budgeting loop selects exactly the longest prefix of the
\* distance-ordered candidates whose cumulative cost stays strictly below
\* MAX_CONTEXT_TOKENS; nothing after the first overflowing chunk is selected.
BudgetSelectsLongestPrefix ==
    qpc = "generate" =>
        LET fits == {j \in 0..Len(sorted_docs) :
                        \A i \in 0..j : PrefixCost(sorted_docs, i) < 4000}
            k == SetMax(fits)
        IN  /\ selected = SubSeq(sorted_docs, 1, k)
            /\ total_tokens = PrefixCost(sorted_docs, k)

\* C1's case: costs [1000, 3500, 200] in distance order select only the first.
BudgetSelectsLongestPrefixWitness ==
    /\ qpc = "generate"
    /\ Len(sorted_docs) = 3
    /\ TextLen(sorted_docs[1].doc) = 4000
    /\ TextLen(sorted_docs[2].doc) = 14000
    /\ TextLen(sorted_docs[3].doc) = 800
    /\ selected = <<sorted_docs[1]>>

\* C8: the generation service is called at most once per query, and a query
\* whose generation call failed ends with HTTP 500 "LLM Error" and no answer.
GenerationFailureSurfacedOnce ==
    /\ gen_calls <= 1
    /\ (qpc = "done" /\ gen_outcome \in GenFailures) =>
           /\ response.status = 500
           /\ response.detail = "LLM Error"
           /\ response.answer = "none"

\* C8's case: a query that ended after its one generation call failed.
GenerationFailureSurfacedOnceWitness ==
    /\ qpc = "done"
    /\ gen_calls = 1
    /\ gen_outcome = "malformed"

(***************************************************************************)
(* Python string operations on sequences of characters.                    *)
(***************************************************************************)
Rep(c, n) == [k \in 1..n |-> c]

IsDigit(c) == c \in {"0", "1", "2", "3", "4", "5", "6", "7", "8", "9"}
IsSpace(c) == c \in {" ", "\n", "\t"}

UpperOf == [c \in {"a", "b", "t", "h", "p", "s", "r", "c", "m", "v"} |->
              CASE c = "a" -> "A" [] c = "b" -> "B" [] c = "t" -> "T"
                [] c = "h" -> "H" [] c = "p" -> "P" [] c = "s" -> "S"
                [] c = "r" -> "R" [] c = "c" -> "C" [] c = "m" -> "M"
                [] c = "v" -> "V"]
Upper(c) == IF c \in DOMAIN UpperOf THEN UpperOf[c] ELSE c
Lower(c) == IF \E l \in DOMAIN UpperOf : UpperOf[l] = c
            THEN CHOOSE l \in DOMAIN UpperOf : UpperOf[l] = c
            ELSE c

StartsWith(s, p) == Len(s) >= Len(p) /\ SubSeq(s, 1, Len(p)) = p
Drop(s, n) == SubSeq(s, n + 1, Len(s))

\* s.replace(pat, ''): every occurrence, left to right, without overlap.
RECURSIVE RemoveAll(_, _)
RemoveAll(s, pat) ==
    IF s = <<>> THEN <<>>
    ELSE IF StartsWith(s, pat) THEN RemoveAll(Drop(s, Len(pat)), pat)
    ELSE <<s[1]>> \o RemoveAll(Drop(s, 1), pat)

\* s.replace(a, b) for single characters.
ReplaceChar(s, a, b) == [k \in 1..Len(s) |-> IF s[k] = a THEN b ELSE s[k]]

\* The number of consecutive digits of s from position i on.
RECURSIVE DigitRun(_, _)
DigitRun(s, i) ==
    IF i <= Len(s) /\ IsDigit(s[i]) THEN 1 + DigitRun(s, i + 1) ELSE 0

RECURSIVE LStrip(_)
LStrip(s) == IF s # <<>> /\ IsSpace(s[1]) THEN LStrip(Drop(s, 1)) ELSE s

RECURSIVE RStrip(_)
RStrip(s) ==
    IF s # <<>> /\ IsSpace(s[Len(s)]) THEN RStrip(SubSeq(s, 1, Len(s) - 1)) ELSE s

\* s.strip()
Strip(s) == RStrip(LStrip(s))

\* s.split(): the maximal runs of non-whitespace characters.
RECURSIVE Split(_, _)
Split(s, word) ==
    IF s = <<>> THEN (IF word = <<>> THEN <<>> ELSE <<word>>)
    ELSE IF IsSpace(s[1])
         THEN (IF word = <<>> THEN <<>> ELSE <<word>>) \o Split(Drop(s, 1), <<>>)
         ELSE Split(Drop(s, 1), Append(word, s[1]))

\* word.capitalize()
Capitalize(w) == [k \in 1..Len(w) |-> IF k = 1 THEN Upper(w[k]) ELSE Lower(w[k])]

\* ' '.join(words)
RECURSIVE JoinSpace(_)
JoinSpace(words) ==
    IF words = <<>> THEN <<>>
    ELSE IF Len(words) = 1 THEN words[1]
    ELSE words[1] \o <<" ">> \o JoinSpace(Drop(words, 1))

\* s.isnumeric()
IsNumeric(s) == s # <<>> /\ \A k \in 1..Len(s) : IsDigit(s[k])

\* s.lower()
LowerStr(s) == [k \in 1..Len(s) |-> Lower(s[k])]

DotPdf == <<".", "p", "d", "f">>

(***************************************************************************)
(* title_extraction.py: the regular expressions                            *)
(***************************************************************************)
\* Length of group 1 of re.match(r"(\d{4}\.\d{4,5})(v\d+)?", s), -1 without a match.
ArxivIdLen(s) ==
    IF /\ Len(s) >= 9
       /\ DigitRun(s, 1) >= 4
       /\ s[5] = "."
       /\ DigitRun(s, 6) >= 4
    THEN (IF DigitRun(s, 6) >= 5 THEN 10 ELSE 9)
    ELSE -1

\* Length of the whole match of r"^\d{4}\.\d{4,5}(v\d+)?", -1 without a match.
ArxivMatchLen(s) ==
    LET g == ArxivIdLen(s)
    IN  IF g < 0 THEN -1
        ELSE IF Len(s) >= g + 2 /\ s[g + 1] = "v" /\ IsDigit(s[g + 2])
             THEN g + 1 + DigitRun(s, g + 2)
             ELSE g

\* re.sub(r'^\d+_', '', name)
StripNumericPrefix(name) ==
    LET n == DigitRun(name, 1)
    IN  IF n >= 1 /\ Len(name) >= n + 1 /\ name[n + 1] = "_"
        THEN Drop(name, n + 1) ELSE name

\* re.sub(r'^\d{4}\.\d{4,5}(v\d+)?', '', name)
StripArxivId(name) ==
    IF ArxivMatchLen(name) >= 0 THEN Drop(name, ArxivMatchLen(name)) ELSE name

(***************************************************************************)
(* title_extraction.py: the strategies.  A strategy returns                *)
(* [title, source, raised]; (None, None) is NoResult, and raised says an   *)
(* exception leaves the function.                                          *)
(***************************************************************************)
NoResult == [title |-> <<>>, source |-> "None", raised |-> FALSE]
Result(t, src) == [title |-> t, source |-> src, raised |-> FALSE]
Raised == [title |-> <<>>, source |-> "None", raised |-> TRUE]

\* "if title:" -- None and the empty string are both false.
Found(r) == r.title # <<>>

\* Mutant: the looked-up title is dropped.
extract_title_from_arxiv_lost(filename, reply) == NoResult

\* Lines 10-23.  reply is how arxiv.Search(...).results() ends when called.
extract_title_from_arxiv(filename, reply) ==
    IF ArxivIdLen(RemoveAll(filename, DotPdf)) >= 0
    THEN IF reply.kind = "title" THEN Result(reply.title, "arxiv") ELSE NoResult
    ELSE NoResult

\* Mutant: the metadata read is not guarded by try/except.
extract_title_from_pdf_metadata_unguarded(meta) ==
    IF meta.kind = "error" THEN Raised
    ELSE IF meta.kind = "title" /\ meta.title # <<>>
              /\ Len(Strip(meta.title)) > 10 /\ Len(Strip(meta.title)) < 200
         THEN Result(Strip(meta.title), "pdf_metadata")
         ELSE NoResult

\* Lines 26-38.  meta is what pymupdf gives: an error, no title, or a title.
extract_title_from_pdf_metadata(meta) ==
    IF meta.kind = "error" THEN NoResult
    ELSE IF meta.kind = "title" /\ meta.title # <<>>
              /\ Len(Strip(meta.title)) > 10 /\ Len(Strip(meta.title)) < 200
         THEN Result(Strip(meta.title), "pdf_metadata")
         ELSE NoResult

\* Lines 61-65: the filter on a span's stripped text.
IsTitleCandidate(text) ==
    /\ Len(text) > 15
    /\ Len(text) < 200
    /\ ~IsNumeric(text)
    /\ ~StartsWith(text, <<"h", "t", "t", "p">>)
    /\ ~(text # <<>> /\ \A k \in 1..Len(text) : text[k] \in {"0", "1", "2", "3", "4", "5", "6", "7", "8", "9"})
    /\ ~StartsWith(LowerStr(text), <<"a", "b", "s", "t", "r", "a", "c", "t">>)

\* Lines 51-71: the candidates of the first 15 blocks, in reading order.
RECURSIVE SpanCandidates(_)
SpanCandidates(spans) ==
    IF spans = <<>> THEN <<>>
    ELSE (IF IsTitleCandidate(Strip(spans[1].text))
          THEN <<[text |-> Strip(spans[1].text), size |-> spans[1].size,
                  y_position |-> spans[1].y]>>
          ELSE <<>>) \o SpanCandidates(Drop(spans, 1))

RECURSIVE BlockCandidates(_)
BlockCandidates(blocks) ==
    IF blocks = <<>> THEN <<>>
    ELSE (IF blocks[1].has_lines THEN SpanCandidates(blocks[1].spans) ELSE <<>>)
         \o BlockCandidates(Drop(blocks, 1))

\* key=lambda x: (-x['size'], x['y_position'])
KeyLeq(a, b) == a.size > b.size \/ (a.size = b.size /\ a.y_position <= b.y_position)

\* candidates.sort(key=...): a stable sort.
RECURSIVE InsertByKey(_, _)
InsertByKey(sorted, x) ==
    IF sorted = <<>> THEN <<x>>
    ELSE LET last == sorted[Len(sorted)]
         IN  IF KeyLeq(last, x) THEN Append(sorted, x)
             ELSE Append(InsertByKey(SubSeq(sorted, 1, Len(sorted) - 1), x), last)

RECURSIVE SortCandidates(_)
SortCandidates(cs) ==
    IF cs = <<>> THEN <<>>
    ELSE InsertByKey(SortCandidates(SubSeq(cs, 1, Len(cs) - 1)), cs[Len(cs)])

\* Lines 40-89.  page is the first page as pymupdf gives it, or an error.
extract_title_from_pdf_text(page) ==
    IF page.kind = "error" THEN NoResult
    ELSE LET candidates == BlockCandidates(SubSeq(page.blocks, 1, Min(15, Len(page.blocks))))
         IN  IF candidates = <<>> THEN NoResult
             ELSE Result(Strip(ReplaceChar(SortCandidates(candidates)[1].text, "\n", " ")),
                         "pdf_text")

\* Lines 91-108.  reply is how requests.get and response.json() end.
search_semantic_scholar(title_guess, reply) ==
    IF reply.kind = "ok" /\ reply.status = 200 /\ reply.data # <<>>
    THEN Result(reply.data[1], "semantic_scholar")
    ELSE NoResult

\* Lines 110-124.
clean_filename_as_title(filename) ==
    LET name == Strip(ReplaceChar(StripArxivId(StripNumericPrefix(
                    RemoveAll(filename, DotPdf))), "_", " "))
    IN  IF name # <<>>
        THEN Result(JoinSpace([k \in 1..Len(Split(name, <<>>)) |->
                                  Capitalize(Split(name, <<>>)[k])]), "filename")
        ELSE Result(RemoveAll(filename, DotPdf), "filename")

\* Mutant: the verification result is ignored.
verifiedOrHeuristicIgnoring(guess, verified) == guess

\* Lines 160-165: the verified title wins over the heuristic one.
verifiedOrHeuristic(guess, verified) ==
    IF Found(verified) THEN Result(verified.title, "semantic_scholar") ELSE guess

(***************************************************************************)
(* title_extraction.py: the inputs of the sweep                            *)
(***************************************************************************)
StemAlphabet == {"7", "_", "a"}

ArxivStem == <<"2", "3", "0", "1", ".", "1", "2", "3", "4", "5">>
ShortArxivStem == <<"2", "3", "0", "1", ".", "1", "2", "3", "4">>

\* Stems (file names without ".pdf"): every short stem over the alphabet, and
\* the shapes the regular expressions distinguish.
SpecialStems ==
    { ArxivStem, ShortArxivStem,
      ArxivStem \o <<"v", "2">>,
      ArxivStem \o <<"_">>,
      ArxivStem \o <<"_", "a">>,
      ArxivStem \o <<"6">>,
      <<"2", "3", "0", ".", "1", "2", "3", "4", "5">>,
      <<"7", "_">> \o ArxivStem,
      <<"a", "_", "b", " ", "c">>,
      <<"a", ".", "p", "d", "f">> }

Filenames == {stem \o DotPdf : stem \in SeqsUpTo(StemAlphabet, MaxStemLen) \cup SpecialStems}

\* The directories of several files the sweep is run on.
SweepFilenames == {ArxivStem \o DotPdf, ShortArxivStem \o <<"v", "2">> \o DotPdf,
                   <<"a">> \o DotPdf}

NoDuplicates(q) == \A a, b \in 1..Len(q) : q[a] = q[b] => a = b

ArxivTitle == <<"A", "r", "x">>
ArxivReplies ==
    { [kind |-> "title", title |-> ArxivTitle],
      [kind |-> "title", title |-> <<>>],
      [kind |-> "not_found", title |-> <<>>],
      [kind |-> "error", title |-> <<>>] }

MetaInputs ==
    { [kind |-> "error", title |-> <<>>],
      [kind |-> "none", title |-> <<>>],
      [kind |-> "title", title |-> Rep("m", 10)],
      [kind |-> "title", title |-> <<" ">> \o Rep("m", 11) \o <<" ">>],
      [kind |-> "title", title |-> Rep("m", 199)],
      [kind |-> "title", title |-> Rep("m", 200)] }

Span(t, sz, y) == [text |-> t, size |-> sz, y |-> y]
TextBlock(spans) == [has_lines |-> TRUE, spans |-> spans]
ImageBlock == [has_lines |-> FALSE, spans |-> <<>>]

PageInputs ==
    { [kind |-> "error", blocks |-> <<>>],
      [kind |-> "page", blocks |-> <<>>],
      [kind |-> "page", blocks |-> <<TextBlock(<<Span(Rep("t", 16), 10, 5)>>)>>],
      [kind |-> "page", blocks |->
          <<TextBlock(<<Span(Rep("t", 16), 10, 1), Span(Rep("b", 16), 20, 3)>>),
            TextBlock(<<Span(Rep("c", 16), 20, 2)>>)>>],
      [kind |-> "page", blocks |->
          <<ImageBlock,
            TextBlock(<<Span(Rep("t", 15), 30, 1), Span(Rep("7", 16), 30, 1),
                        Span(<<"h", "t", "t", "p">> \o Rep("s", 12), 30, 1),
                        Span(<<"A", "b", "s", "t", "r", "a", "c", "t">> \o Rep("s", 8), 30, 1),
                        Span(Rep("t", 200), 30, 1)>>)>>],
      [kind |-> "page", blocks |->
          Rep(ImageBlock, 15) \o <<TextBlock(<<Span(Rep("t", 16), 10, 5)>>)>>],
      [kind |-> "page", blocks |->
          <<TextBlock(<<Span(<<" ">> \o Rep("p", 8) \o <<"\n">> \o Rep("p", 8) \o <<" ">>, 10, 5)>>)>>] }

VerifiedTitle == <<"S", "e", "m">>
SSReplies ==
    { [kind |-> "error", status |-> 0, data |-> <<>>],
      [kind |-> "ok", status |-> 404, data |-> <<>>],
      [kind |-> "ok", status |-> 200, data |-> <<>>],
      [kind |-> "ok", status |-> 200, data |-> <<VerifiedTitle>>],
      [kind |-> "ok", status |-> 200, data |-> << <<>> >>] }

(***************************************************************************)
(* title_extraction.py: get_paper_title_multi_strategy and the sweep       *)
(***************************************************************************)
filename == pdf_files[fidx]

InitTitle ==
    /\ ChunkIdle
    /\ QueryIdle
    /\ IngestIdle
    /\ pdf_files \in {<<f>> : f \in Filenames}
                     \cup {q \in SeqsUpTo(SweepFilenames, MaxFiles) : NoDuplicates(q)}
    /\ fidx = 0
    /\ tpc = "loop"
    /\ attempted = <<>>
    /\ arxiv_id = <<>>
    /\ arxiv_reply = Unused
    /\ meta_in = Unused
    /\ page_in = Unused
    /\ ss_reply = Unused
    /\ heuristic = NoResult
    /\ title = <<>>
    /\ source = "None"
    /\ called = {}
    /\ net_log = <<>>
    /\ doc_log = <<>>
    /\ extracted_titles = <<>>
    /\ sources_count = [p \in Provenances |-> 0]

\* What get_paper_title_multi_strategy does with a strategy's result r:
\* return it when it holds a title, go on to the strategy `next` otherwise.
Returned(strategy, r, next) ==
    /\ attempted' = Append(attempted, strategy)
    /\ IF r.raised
       THEN tpc' = "crashed" /\ UNCHANGED <<title, source>>
       ELSE IF Found(r)
            THEN title' = r.title /\ source' = r.source /\ tpc' = "record"
            ELSE tpc' = next /\ UNCHANGED <<title, source>>

\* Line 188: the next file of the directory.
NextFile ==
    /\ tpc = "loop"
    /\ fidx < Len(pdf_files)
    /\ fidx' = fidx + 1
    /\ tpc' = "arxiv"
    /\ attempted' = <<>>
    /\ arxiv_id' = <<>>
    /\ arxiv_reply' = Unused
    /\ meta_in' = Unused
    /\ page_in' = Unused
    /\ ss_reply' = Unused
    /\ heuristic' = NoResult
    /\ title' = <<>>
    /\ source' = "None"
    /\ called' = {}
    /\ UNCHANGED <<pdf_files, net_log, doc_log, extracted_titles, sources_count>>
    /\ UNCHANGED othersOfTitle

\* Lines 138-143 with 10-23: the file name carries an arXiv identifier and
\* the lookup is made.
TryArxiv ==
    /\ tpc = "arxiv"
    /\ ArxivIdLen(RemoveAll(filename, DotPdf)) >= 0
    /\ \E reply \in ArxivReplies :
          /\ arxiv_reply' = reply
          /\ Returned("arxiv", extract_title_from_arxiv(filename, reply), "metadata")
    /\ arxiv_id' = SubSeq(RemoveAll(filename, DotPdf), 1,
                          ArxivIdLen(RemoveAll(filename, DotPdf)))
    /\ called' = called \cup {"arxiv"}
    /\ net_log' = Append(net_log, "arxiv")
    /\ UNCHANGED <<pdf_files, fidx, meta_in, page_in, ss_reply, heuristic, doc_log,
                   extracted_titles, sources_count>>
    /\ UNCHANGED othersOfTitle

\* Lines 138-143 with 10-23: no identifier in the file name, no lookup.
SkipArxiv ==
    /\ tpc = "arxiv"
    /\ ArxivIdLen(RemoveAll(filename, DotPdf)) < 0
    /\ Returned("arxiv", extract_title_from_arxiv(filename, Unused), "metadata")
    /\ UNCHANGED <<pdf_files, fidx, arxiv_id, arxiv_reply, meta_in, page_in, ss_reply,
                   heuristic, called, net_log, doc_log, extracted_titles, sources_count>>
    /\ UNCHANGED othersOfTitle

\* Lines 145-150.
TryMetadata ==
    /\ tpc = "metadata"
    /\ \E meta \in MetaInputs :
          /\ meta_in' = meta
          /\ Returned("pdf_metadata", extract_title_from_pdf_metadata(meta), "text")
    /\ UNCHANGED <<pdf_files, fidx, arxiv_id, arxiv_reply, page_in, ss_reply, heuristic,
                   called, net_log, doc_log, extracted_titles, sources_count>>
    /\ UNCHANGED othersOfTitle

\* Lines 152-155 and 166: a title found by the scan goes to the verification.
TryText ==
    /\ tpc = "text"
    /\ \E page \in PageInputs :
          /\ page_in' = page
          /\ heuristic' = extract_title_from_pdf_text(page)
          /\ attempted' = Append(attempted, "pdf_text")
          /\ tpc' = IF heuristic'.raised THEN "crashed"
                    ELSE IF Found(heuristic') THEN "semantic" ELSE "filename"
    /\ UNCHANGED <<pdf_files, fidx, arxiv_id, arxiv_reply, meta_in, ss_reply, title,
                   source, called, net_log, doc_log, extracted_titles, sources_count>>
    /\ UNCHANGED othersOfTitle

\* Lines 157-165: the verification call, then an unconditional return.
TrySemantic ==
    /\ tpc = "semantic"
    /\ \E reply \in SSReplies :
          LET verified == search_semantic_scholar(heuristic.title, reply)
              r == verifiedOrHeuristic(heuristic, verified)
          IN  /\ ss_reply' = reply
              /\ IF verified.raised
                 THEN tpc' = "crashed" /\ UNCHANGED <<title, source>>
                 ELSE title' = r.title /\ source' = r.source /\ tpc' = "record"
    /\ attempted' = Append(attempted, "semantic_scholar")
    /\ called' = called \cup {"semantic_scholar"}
    /\ net_log' = Append(net_log, "semantic_scholar")
    /\ UNCHANGED <<pdf_files, fidx, arxiv_id, arxiv_reply, meta_in, page_in, heuristic,
                   doc_log, extracted_titles, sources_count>>
    /\ UNCHANGED othersOfTitle

\* Lines 168-171.
UseFilename ==
    /\ tpc = "filename"
    /\ attempted' = Append(attempted, "filename")
    /\ title' = clean_filename_as_title(filename).title
    /\ source' = clean_filename_as_title(filename).source
    /\ tpc' = "record"
    /\ UNCHANGED <<pdf_files, fidx, arxiv_id, arxiv_reply, meta_in, page_in, ss_reply,
                   heuristic, called, net_log, doc_log, extracted_titles, sources_count>>
    /\ UNCHANGED othersOfTitle

\* Line 206: the condition of the rate-limit sleep.
sleepsAfter(src) == src \in {"arxiv", "semantic_scholar"}

\* Lines 194-207: record the result, then the rate-limit sleep.
Record ==
    /\ tpc = "record"
    /\ extracted_titles' =
          (filename :> [title |-> title, source |-> source,
                        needs_manual_review |-> (source = "filename")])
          @@ extracted_titles
    /\ sources_count' = [sources_count EXCEPT ![source] = @ + 1]
    /\ net_log' = IF sleepsAfter(source) THEN Append(net_log, "sleep") ELSE net_log
    /\ doc_log' = Append(doc_log, [file |-> filename, called |-> called,
                                   slept |-> sleepsAfter(source)])
    /\ tpc' = "loop"
    /\ UNCHANGED <<pdf_files, fidx, attempted, arxiv_id, arxiv_reply, meta_in, page_in,
                   ss_reply, heuristic, title, source, called>>
    /\ UNCHANGED othersOfTitle

\* Lines 209-221: the titles are written; the summary divides by the number
\* of files.
WriteJson ==
    /\ tpc = "loop"
    /\ fidx = Len(pdf_files)
    /\ tpc' = IF Len(pdf_files) = 0 THEN "summary_error" ELSE "written"
    /\ UNCHANGED <<pdf_files, fidx, attempted, arxiv_id, arxiv_reply, meta_in, page_in,
                   ss_reply, heuristic, title, source, called, net_log, doc_log,
                   extracted_titles, sources_count>>
    /\ UNCHANGED othersOfTitle

NextTitle ==
    \/ NextFile \/ TryArxiv \/ SkipArxiv \/ TryMetadata \/ TryText \/ TrySemantic
    \/ UseFilename \/ Record \/ WriteJson

SpecTitle == InitTitle /\ [][NextTitle]_vars

InResolution == tpc \in {"arxiv", "metadata", "text", "semantic", "filename"}
Resolved == fidx >= 1 /\ tpc \in {"record", "loop", "written"}

\* C4 as stated: whenever resolution falls back to the file name, the title
\* is a non-empty string without any underscore.
FilenameFallbackUsable ==
    (tpc = "record" /\ source = "filename") =>
        /\ title # <<>>
        /\ \A k \in 1..Len(title) : title[k] # "_"

ArxivSucceeded == arxiv_reply.kind = "title" /\ arxiv_reply.title # <<>>

\* C5: once the arXiv lookup of a matching file name has given a title,
\* resolution returns that title with provenance arxiv and no later strategy
\* (metadata, text scan, search, file name) is attempted.
ArxivLookupWins ==
    (fidx >= 1 /\ ArxivSucceeded) =>
        /\ Resolved
        /\ title = arxiv_reply.title
        /\ source = "arxiv"
        /\ attempted = <<"arxiv">>
        /\ meta_in = Unused /\ page_in = Unused /\ ss_reply = Unused

\* C5's case: a file named by an arXiv identifier plus a suffix, looked up.
ArxivLookupWinsWitness ==
    /\ tpc = "record"
    /\ filename = ArxivStem \o <<"_", "a">> \o DotPdf
    /\ arxiv_id = ArxivStem
    /\ ArxivSucceeded
    /\ source = "arxiv"

SearchYieldsTitle ==
    /\ ss_reply.kind = "ok"
    /\ ss_reply.status = 200
    /\ ss_reply.data # <<>>
    /\ ss_reply.data[1] # <<>>

\* C6: the bibliographic search is made only after the text scan produced a
\* title (arXiv and metadata having given none); after a successful scan the
\* result is the verified title under semantic_scholar when the search gives
\* one, the scanned title under pdf_text otherwise, never the file name.
VerificationOnlyUpgradesHeuristic ==
    /\ (fidx >= 1 /\ ss_reply # Unused) =>
           /\ heuristic.title # <<>>
           /\ attempted = <<"arxiv", "pdf_metadata", "pdf_text", "semantic_scholar">>
           /\ ~ArxivSucceeded
           /\ meta_in # Unused
           /\ ~(meta_in.kind = "title" /\ Len(Strip(meta_in.title)) \in 11..199)
    /\ (fidx >= 1 /\ heuristic.title # <<>>) =>
           /\ tpc \in {"semantic", "record", "loop", "written"}
           /\ tpc # "semantic" =>
                 /\ ss_reply # Unused
                 /\ IF SearchYieldsTitle
                    THEN title = ss_reply.data[1] /\ source = "semantic_scholar"
                    ELSE title = heuristic.title /\ source = "pdf_text"
                 /\ attempted[Len(attempted)] = "semantic_scholar"

\* C6's case: the scan picked the largest, topmost span and the search
\* replaced it by the verified title.
VerificationOnlyUpgradesHeuristicWitness ==
    /\ tpc = "record"
    /\ heuristic.title = Rep("c", 16)
    /\ SearchYieldsTitle
    /\ title = VerifiedTitle
    /\ source = "semantic_scholar"

\* C7 as stated: two successive calls to the same service are separated by a
\* rate-limit sleep, and the sleep follows exactly the files whose resolution
\* made a network call.
RateLimitBetweenCalls ==
    /\ \A a, b \in 1..Len(net_log) :
          (a < b /\ net_log[a] # "sleep" /\ net_log[a] = net_log[b]) =>
              \E c \in (a + 1)..(b - 1) : net_log[c] = "sleep"
    /\ \A d \in 1..Len(doc_log) : doc_log[d].slept <=> doc_log[d].called # {}

ArxivFailed ==
    arxiv_reply = Unused \/ arxiv_reply.kind \in {"error", "not_found"} \/ arxiv_reply.title = <<>>
MetadataFailed ==
    meta_in # Unused /\ ~(meta_in.kind = "title" /\ Len(Strip(meta_in.title)) \in 11..199)
TextFailed == page_in # Unused /\ heuristic.title = <<>>

\* Where resolution stands after n strategies have been attempted.
StepsTaken ==
    CASE tpc = "arxiv" -> 0
      [] tpc = "metadata" -> 1
      [] tpc = "text" -> 2
      [] tpc \in {"semantic", "filename"} -> 3
      [] OTHER -> Len(attempted)

\* C9: whatever each strategy does (title, nothing, error or timeout), no
\* failure leaves resolution, resolution returns after at most four strategy
\* attempts (each step attempts one more strategy), a failed strategy is
\* followed by the next one in order, and the returned provenance is one of
\* the five.
ResolutionAlwaysReturns ==
    /\ tpc # "crashed"
    /\ Len(attempted) = StepsTaken /\ Len(attempted) <= 4
    /\ (fidx >= 1 /\ tpc # "arxiv") =>
          /\ attempted # <<>> /\ attempted[1] = "arxiv"
          /\ (ArxivFailed /\ Len(attempted) = 1) => tpc = "metadata"
          /\ Len(attempted) >= 2 => ArxivFailed /\ attempted[2] = "pdf_metadata"
          /\ (MetadataFailed /\ Len(attempted) = 2) => tpc = "text"
          /\ Len(attempted) >= 3 => MetadataFailed /\ attempted[3] = "pdf_text"
          /\ (TextFailed /\ Len(attempted) = 3) => tpc = "filename"
          /\ Len(attempted) >= 4 =>
                /\ Len(attempted) = 4
                /\ attempted[4] = IF TextFailed THEN "filename" ELSE "semantic_scholar"
    /\ Resolved =>
          /\ source \in Provenances
          /\ extracted_titles # <<>> /\ tpc # "record" =>
                extracted_titles[filename].source = source

\* C9's case: lookup, metadata read and page scan all raised, and resolution
\* still returned, from the file name.
ResolutionAlwaysReturnsWitness ==
    /\ tpc = "record"
    /\ arxiv_reply.kind = "error"
    /\ meta_in.kind = "error"
    /\ page_in.kind = "error"
    /\ attempted = <<"arxiv", "pdf_metadata", "pdf_text", "filename">>
    /\ source = "filename"

(***************************************************************************)
(* build_database.py: the index build                                      *)
(***************************************************************************)
batch_size == 500

\* str(i), as its decimal digits.
DigitChar(d) ==
    CASE d = 0 -> "0" [] d = 1 -> "1" [] d = 2 -> "2" [] d = 3 -> "3" [] d = 4 -> "4"
      [] d = 5 -> "5" [] d = 6 -> "6" [] d = 7 -> "7" [] d = 8 -> "8" [] d = 9 -> "9"

RECURSIVE PyStr(_)
PyStr(i) == IF i < 10 THEN <<DigitChar(i)>> ELSE Append(PyStr(i \div 10), DigitChar(i % 10))

\* seq[i:j] on a list, 0 <= i <= j.
ListSlice(q, i, j) == SubSeq(q, Min(i, Len(q)) + 1, Min(j, Len(q)))

\* The embedding service is deterministic: the vector is named by its text.
Embed(text) == [of |-> text]

\* f"Paper Title: {title}\n\n{chunk}"
Enriched(t, chunk) == [title |-> t, body |-> chunk]

\* titles_cache.get(pdf_file, {}).get('title', pdf_file)
CachedTitle(cache, pdf_file) ==
    IF pdf_file \in DOMAIN cache THEN cache[pdf_file] ELSE pdf_file

\* Text lengths of the papers: unreadable (-1), empty, one window, two windows
\* of which the first is cut short, exactly batch_size windows, one more.
PaperNames == <<"p1.pdf", "p2.pdf", "p3.pdf">>
PaperTextLens == {-1, 0, 2800, 2900, 2800 * 499 + 1, 2800 * 500 + 1}

\* What an earlier run left in the persistent collection: n entries with the
\* ids that run gave them.
OldEntries(n) ==
    {[id |-> PyStr(k), embedding |-> Embed(Enriched("old.pdf", Text("old.pdf", k + 1))),
      document |-> Enriched("old.pdf", Text("old.pdf", k + 1)),
      metadata |-> [source |-> "old.pdf", title |-> "old.pdf"]] : k \in 0..(n - 1)}

InitIngest ==
    /\ ChunkIdle
    /\ QueryIdle
    /\ TitleIdle
    /\ \E n \in 0..MaxPapers :
          \E lens \in [1..n -> PaperTextLens] :
             papers = [k \in 1..n |-> [name |-> PaperNames[k], text_len |-> lens[k]]]
    /\ titles_cache \in {<<>>, [f \in {"p1.pdf"} |-> "Title One"]}
    /\ pidx = 0
    /\ all_chunks = <<>>
    /\ metadatas = <<>>
    /\ embeddings = <<>>
    /\ chunk_ids = <<>>
    /\ batch_start = 0
    /\ \E n \in {0, 2} : collection = OldEntries(n)
    /\ ipc = "files"

othersOfIngest == <<chunkVars, queryVars, titleVars>>

\* Lines 37-54: a readable, non-empty paper is chunked and enriched.
ProcessFile ==
    /\ ipc = "files"
    /\ pidx < Len(papers)
    /\ papers[pidx + 1].text_len > 0
    /\ LET pdf_file == papers[pidx + 1].name
           document_text == Text(pdf_file, papers[pidx + 1].text_len)
           cs == chunking(document_text, DefaultChunkSize, DefaultOverlap)
           t == CachedTitle(titles_cache, pdf_file)
       IN  /\ all_chunks' = all_chunks \o [k \in 1..Len(cs) |-> Enriched(t, cs[k])]
           /\ metadatas' = metadatas \o [k \in 1..Len(cs) |-> [source |-> pdf_file, title |-> t]]
    /\ pidx' = pidx + 1
    /\ UNCHANGED <<papers, titles_cache, embeddings, chunk_ids, batch_start, collection, ipc>>
    /\ UNCHANGED othersOfIngest

\* Lines 37-42: read_pdf returned None or an empty text; the paper is skipped.
SkipFile ==
    /\ ipc = "files"
    /\ pidx < Len(papers)
    /\ papers[pidx + 1].text_len <= 0
    /\ pidx' = pidx + 1
    /\ UNCHANGED <<papers, titles_cache, all_chunks, metadatas, embeddings, chunk_ids,
                   batch_start, collection, ipc>>
    /\ UNCHANGED othersOfIngest

\* Lines 58-72: the embeddings and the ids.
Encode ==
    /\ ipc = "files"
    /\ pidx = Len(papers)
    /\ embeddings' = [k \in 1..Len(all_chunks) |-> Embed(all_chunks[k])]
    /\ chunk_ids' = [k \in 1..Len(all_chunks) |-> PyStr(k - 1)]
    /\ batch_start' = 0
    /\ ipc' = "add"
    /\ UNCHANGED <<papers, titles_cache, pidx, all_chunks, metadatas, collection>>
    /\ UNCHANGED othersOfIngest

\* The entries of the batch that starts at i.
Batch(i) ==
    LET ids == ListSlice(chunk_ids, i, i + batch_size)
        embs == ListSlice(embeddings, i, i + batch_size)
        docs == ListSlice(all_chunks, i, i + batch_size)
        metas == ListSlice(metadatas, i, i + batch_size)
    IN  {[id |-> ids[j], embedding |-> embs[j], document |-> docs[j],
          metadata |-> metas[j]] : j \in 1..Len(ids)}

IndexIds == {e.id : e \in collection}

\* Lines 76-84: collection.add of one batch.  An entry whose id the collection
\* already holds is not added (the index keeps ids unique).
AddBatch ==
    /\ ipc = "add"
    /\ batch_start < Len(all_chunks)
    /\ collection' = collection \cup {e \in Batch(batch_start) : e.id \notin IndexIds}
    /\ batch_start' = batch_start + batch_size
    /\ UNCHANGED <<papers, titles_cache, pidx, all_chunks, metadatas, embeddings,
                   chunk_ids, ipc>>
    /\ UNCHANGED othersOfIngest

\* Lines 76-84: collection.add rejects a batch with an id it already holds.
AddBatchRejected ==
    /\ ipc = "add"
    /\ batch_start < Len(all_chunks)
    /\ \E e \in Batch(batch_start) : e.id \in IndexIds
    /\ ipc' = "crashed"
    /\ UNCHANGED <<papers, titles_cache, pidx, all_chunks, metadatas, embeddings,
                   chunk_ids, batch_start, collection>>
    /\ UNCHANGED othersOfIngest

\* Lines 88-92.
Finish ==
    /\ ipc = "add"
    /\ batch_start >= Len(all_chunks)
    /\ ipc' = "done"
    /\ UNCHANGED <<papers, titles_cache, pidx, all_chunks, metadatas, embeddings,
                   chunk_ids, batch_start, collection>>
    /\ UNCHANGED othersOfIngest

NextIngest == ProcessFile \/ SkipFile \/ Encode \/ AddBatch \/ AddBatchRejected \/ Finish

SpecIngest == InitIngest /\ [][NextIngest]_vars

\* C10 as stated: when the run completes, every chunk of the run is in the
\* index exactly once, under an id no other entry has, with its own embedding
\* and its own {source, title} metadata.
EveryChunkIndexedOnce ==
    ipc = "done" =>
        \A k \in 1..Len(all_chunks) :
            LET hits == {e \in collection : e.document = all_chunks[k]}
            IN  /\ Cardinality(hits) = 1
                /\ \A e \in hits :
                      /\ e.id = PyStr(k - 1)
                      /\ e.embedding = Embed(all_chunks[k])
                      /\ e.metadata = metadatas[k]
                      /\ \A o \in collection : o.id = e.id => o = e

====
